---- MODULE Spec2Model ----
(***************************************************************************)
(* The DSMR smart-meter sensor platform (sensor/dsmr.py) and the Rflink     *)
(* sensor platform (sensor/rflink.py) as state machines.                   *)
(*                                                                         *)
(* Spec   : the static (DSMR) pipeline: platform setup, telegram dispatch   *)
(*          and the state-change jobs that read every entity.              *)
(* SpecRF : the dynamic (Rflink) discovery handlers, interleaved at their   *)
(*          suspension points.                                             *)
(***************************************************************************)
EXTENDS Integers, Sequences, FiniteSets, TLC

\* ------------------------------------------------------------------ bounds
\* telegram timestamps are 1..MaxTime
MaxTime == 2
\* meter readings are 0..MaxReading
MaxReading == 2
\* update_entities_telegram is taken only while the queue of scheduled
\* async_update_ha_state jobs has room for one job per entity
MaxJobs == 12
\* number of Rflink sensor events fired on the bus
MaxEvents == 3
\* scheduled updates waiting when derivative instances are driven one by one
MaxPending == 1

\* ------------------------------------------------------- Python values
\* Every Python value the entities handle carries its type, so that None,
\* numbers, strings and datetimes can be compared with each other.
None == [t |-> "none", n |-> 0, s |-> ""]
IntV(k) == [t |-> "int", n |-> k, s |-> ""]
StrV(x) == [t |-> "str", n |-> 0, s |-> x]
DtV(k) == [t |-> "datetime", n |-> k, s |-> ""]

\* Python truthiness (`if value:`): None, 0 and '' are false, a datetime is
\* always true.
Truthy(v) ==
    CASE v.t = "none" -> FALSE
      [] v.t = "int" -> v.n # 0
      [] v.t = "str" -> v.s # ""
      [] OTHER -> TRUE

\* homeassistant.const.STATE_UNKNOWN, imported at dsmr.py:37
STATE_UNKNOWN == StrV("unknown")

\* current_reading - self._previous_reading (dsmr.py:236); a non-numeric
\* operand raises TypeError
TypeError == StrV("TypeError")
Sub(a, b) == IF a.t = "int" /\ b.t = "int" THEN IntV(a.n - b.n) ELSE TypeError

\* unit + '/h' (dsmr.py:249)
Concat(a, x) == StrV(a.s \o x)

\* ------------------------------------------------- obis references, names
\* Names of dsmr_parser.obis_references used at dsmr.py:76-92
CURRENT_ELECTRICITY_USAGE == "CURRENT_ELECTRICITY_USAGE"
CURRENT_ELECTRICITY_DELIVERY == "CURRENT_ELECTRICITY_DELIVERY"
ELECTRICITY_ACTIVE_TARIFF == "ELECTRICITY_ACTIVE_TARIFF"
ELECTRICITY_USED_TARIFF_1 == "ELECTRICITY_USED_TARIFF_1"
ELECTRICITY_USED_TARIFF_2 == "ELECTRICITY_USED_TARIFF_2"
ELECTRICITY_DELIVERED_TARIFF_1 == "ELECTRICITY_DELIVERED_TARIFF_1"
ELECTRICITY_DELIVERED_TARIFF_2 == "ELECTRICITY_DELIVERED_TARIFF_2"
HOURLY_GAS_METER_READING == "HOURLY_GAS_METER_READING"
GAS_METER_READING == "GAS_METER_READING"

\* vol.In(['4', '2.2']) (dsmr.py:59)
DSMR_VERSIONS == {"4", "2.2"}

\* obis_mapping (dsmr.py:75-83)
obis_mapping ==
    << <<"Power Consumption", CURRENT_ELECTRICITY_USAGE>>,
       <<"Power Production", CURRENT_ELECTRICITY_DELIVERY>>,
       <<"Power Tariff", ELECTRICITY_ACTIVE_TARIFF>>,
       <<"Power Consumption (low)", ELECTRICITY_USED_TARIFF_1>>,
       <<"Power Consumption (normal)", ELECTRICITY_USED_TARIFF_2>>,
       <<"Power Production (low)", ELECTRICITY_DELIVERED_TARIFF_1>>,
       <<"Power Production (normal)", ELECTRICITY_DELIVERED_TARIFF_2>> >>

\* an entity as constructed: its class, DSMREntity.__init__'s name and obis
Entity(cls, name, obis) == [cls |-> cls, name |-> name, obis |-> obis]

\* mutant of gas_obis: the version is ignored
gas_obis_unversioned(dsmr_version) == GAS_METER_READING

\* Protocol version specific obis (dsmr.py:88-92)
gas_obis(dsmr_version) ==
    IF dsmr_version = "4" THEN HOURLY_GAS_METER_READING ELSE GAS_METER_READING

\* the list `devices` built by async_setup_platform (dsmr.py:85-98)
StaticDevices(dsmr_version) ==
    [i \in 1..Len(obis_mapping) |->
        Entity("DSMREntity", obis_mapping[i][1], obis_mapping[i][2])]
    \o << Entity("DSMREntity", "Gas Consumption", gas_obis(dsmr_version)),
          Entity("DerivativeDSMREntity", "Hourly Gas Consumption",
                 gas_obis(dsmr_version)) >>

\* ---------------------------------------------------------------- telegrams
\* A telegram is a dict obis -> dsmr object; an object has a value, a unit and,
\* for an M-Bus object, a datetime (an attribute an object lacks reads as None
\* through getattr's default).
Obj(value, unit, datetime) == [value |-> value, unit |-> unit, datetime |-> datetime]

Times == 1..MaxTime
Readings == 0..MaxReading

\* gas lines: M-Bus objects with a timestamp, and objects without one whose
\* value may be None and whose unit may be None or the empty string
GasObjects ==
    {Obj(IntV(v), StrV("m3"), DtV(d)) : v \in Readings, d \in Times}
    \cup {Obj(IntV(v), u, None) : v \in Readings,
                                  u \in {StrV("m3"), StrV(""), None}}
    \cup {Obj(None, None, None)}

\* tariff lines: the two rate codes, another code, no value
TariffObjects ==
    {Obj(v, None, None) : v \in {StrV("0001"), StrV("0002"), StrV("0003"), None}}

\* power lines: a reading in kW, zero included
PowerObjects == {Obj(IntV(v), StrV("kW"), None) : v \in Readings}

EmptyTelegram == [o \in {} |-> None]
Line(obis, obj) == [o \in {obis} |-> obj]

\* a telegram with a tariff line, a power line and a gas line
Full(dsmr_version, tariff, power, gas) ==
    [o \in {ELECTRICITY_ACTIVE_TARIFF, CURRENT_ELECTRICITY_DELIVERY,
            gas_obis(dsmr_version)} |->
        IF o = ELECTRICITY_ACTIVE_TARIFF THEN tariff
        ELSE IF o = CURRENT_ELECTRICITY_DELIVERY THEN power ELSE gas]

\* the telegrams a meter of the given version delivers here: the empty one,
\* those with one line (the tariff, the power delivery or the gas obis), and
\* those with all three lines in which the timestamped gas reading varies
Telegrams(dsmr_version) ==
    {EmptyTelegram}
    \cup {Line(ELECTRICITY_ACTIVE_TARIFF, x) : x \in TariffObjects}
    \cup {Line(CURRENT_ELECTRICITY_DELIVERY, x) : x \in PowerObjects}
    \cup {Line(gas_obis(dsmr_version), x) : x \in GasObjects}
    \cup {Full(dsmr_version, Obj(StrV("0002"), None, None),
               Obj(IntV(1), StrV("kW"), None),
               Obj(IntV(v), StrV("m3"), DtV(d))) : v \in Readings, d \in Times}

\* ------------------------------------------------------------------- state
VARIABLES
    \* static mode (dsmr.py)
    pc,                  \* position of async_setup_platform
    dsmr_version,        \* config[CONF_DSMR_VERSION]
    devices,             \* the list `devices` of async_setup_platform
    registered,          \* async_add_devices(devices) has completed
    telegram,            \* telegram[i]: devices[i].telegram
    d_state,             \* d_state[i]: devices[i]._state
    previous_reading,    \* devices[i].__dict__['_previous_reading'], or Unset
    previous_timestamp,  \* devices[i].__dict__['_previous_timestamp'], or Unset
    class_attrs,         \* the class attributes of DerivativeDSMREntity
    jobs,                \* scheduled async_update_ha_state jobs, oldest first
    ret,                 \* what the step just taken read from an entity
    transport,           \* the reader's transport: "none", "open" or "closed"
    stop_fired,          \* EVENT_HOMEASSISTANT_STOP has been fired
    stop_listener,       \* transport.close is listening for the stop event
    closes,              \* calls of transport.close made by the stop listener
    frame,               \* what the reader made of the frame of the step just taken
    \* what an observer of the derivative entities has seen (history only)
    baseline,            \* per entity: the first reading read with a timestamp
    latest,              \* per entity: the last reading read with a new timestamp
    reported,            \* per entity: the sum of the numbers returned by the
                         \* reads that saw a new timestamp
    gap,                 \* per entity: the previous reading when reads without
                         \* a timestamp began, marked as ended by the read of
                         \* a new timestamp, None otherwise
    \* dynamic mode (rflink.py)
    rf_pc,               \* where async_setup_platform of rflink.py stands
    update_mode,         \* when the group takes a membership update: at the
                         \* "call" or at its "completion" ("none": no group)
    listening,           \* add_new_device is registered on the bus
    KNOWN_DEVICE_IDS,    \* the module's list of known device ids
    tasks,               \* the add_new_device handlers started, by event order
    entities,            \* entities handed to async_add_devices, in order
    tracking,            \* new_devices_group.tracking
    new_devices_group,   \* whether new_devices_group is bound to a group (rflink.py:33-36)
    add_calls,           \* the async_add_devices calls made, with the calling handler
    group_updates        \* the async_update_tracked_entity_ids calls made

lifeVars == <<transport, stop_fired, stop_listener, closes>>
obsVars == <<baseline, latest, reported, gap>>
dsmrVars == <<pc, dsmr_version, devices, registered, telegram, d_state,
              previous_reading, previous_timestamp, class_attrs, jobs, ret,
              lifeVars, frame, obsVars>>
rfVars == <<rf_pc, update_mode, listening, KNOWN_DEVICE_IDS, tasks, entities, tracking, new_devices_group,
            add_calls, group_updates>>
vars == <<dsmrVars, rfVars>>

\* no entity was read by the step just taken
NoRet == [dev |-> 0, state |-> None, unit |-> None]

\* no frame was received by the step just taken
NoFrame == [kind |-> "none", telegram |-> EmptyTelegram]

\* ------------------------------------------------------------ DSMREntity
\* DSMREntity.get_dsmr_object_attr (dsmr.py:152-160), on entity i
get_dsmr_object_attr(i, attribute) ==
    IF devices[i].obis \notin DOMAIN telegram[i]
    THEN None
    ELSE telegram[i][devices[i].obis][attribute]

\* mutant of translate_tariff: an unrecognised code is passed through
translate_tariff_raw(value) ==
    IF value = StrV("0002") THEN StrV("normal")
    ELSE IF value = StrV("0001") THEN StrV("low")
    ELSE IF value = None THEN STATE_UNKNOWN ELSE value

\* DSMREntity.translate_tariff (dsmr.py:195-205)
translate_tariff(value) ==
    IF value = StrV("0002") THEN StrV("normal")
    ELSE IF value = StrV("0001") THEN StrV("low")
    ELSE STATE_UNKNOWN

\* mutant of DSMREntity_state: without a value the instance's _state is
\* returned instead of STATE_UNKNOWN
DSMREntity_state_cached(i) ==
    LET value == get_dsmr_object_attr(i, "value") IN
    IF devices[i].obis = ELECTRICITY_ACTIVE_TARIFF
    THEN translate_tariff(value)
    ELSE IF Truthy(value) THEN value ELSE d_state[i]

\* DSMREntity.state (dsmr.py:175-188)
DSMREntity_state(i) ==
    LET value == get_dsmr_object_attr(i, "value") IN
    IF devices[i].obis = ELECTRICITY_ACTIVE_TARIFF
    THEN translate_tariff(value)
    ELSE IF Truthy(value) THEN value ELSE STATE_UNKNOWN

\* DSMREntity.unit_of_measurement (dsmr.py:190-193)
DSMREntity_unit_of_measurement(i) == get_dsmr_object_attr(i, "unit")

\* -------------------------------------------------- DerivativeDSMREntity
\* an attribute the instance has not been assigned: it is not in the
\* instance's __dict__
Unset == [t |-> "unset", n |-> 0, s |-> ""]

\* the class attributes of DerivativeDSMREntity as the module defines them
\* (dsmr.py:216-218)
ClassDefaults ==
    [previous_reading |-> None, previous_timestamp |-> None,
     state |-> STATE_UNKNOWN]

\* Python's attribute lookup: the instance's attribute when it has one, the
\* class attribute otherwise
Lookup(own, class) == IF own = Unset THEN class ELSE own

\* self._previous_reading and self._previous_timestamp as Python reads them
self_previous_reading(i) ==
    Lookup(previous_reading[i], class_attrs.previous_reading)
self_previous_timestamp(i) ==
    Lookup(previous_timestamp[i], class_attrs.previous_timestamp)

\* mutant of NewTimestamp: a changed reading counts as new as well
NewTimestamp_or_reading(i) ==
    LET timestamp == get_dsmr_object_attr(i, "datetime") IN
    /\ Truthy(timestamp)
    /\ \/ timestamp # self_previous_timestamp(i)
       \/ get_dsmr_object_attr(i, "value") # self_previous_reading(i)

\* mutant of NewTimestamp: the comparison with the previous timestamp is lost
NewTimestamp_any(i) == Truthy(get_dsmr_object_attr(i, "datetime"))

\* the guard of dsmr.py:227: the object has a timestamp and it differs from
\* the previous one
NewTimestamp(i) ==
    LET timestamp == get_dsmr_object_attr(i, "datetime") IN
    Truthy(timestamp) /\ timestamp # self_previous_timestamp(i)

\* mutant of DerivativeDSMREntity_state: a read without a timestamp forgets
\* the baseline and returns STATE_UNKNOWN
DerivativeDSMREntity_state_reset(i) ==
    LET timestamp == get_dsmr_object_attr(i, "datetime")
        current_reading == get_dsmr_object_attr(i, "value")
        diff == Sub(current_reading, self_previous_reading(i))
        same == [state |-> d_state[i], reading |-> previous_reading[i],
                 timestamp |-> previous_timestamp[i], result |-> d_state[i]]
    IN  IF NewTimestamp(i)
        THEN IF self_previous_reading(i) = None
             THEN [state |-> d_state[i], reading |-> current_reading,
                   timestamp |-> timestamp, result |-> d_state[i]]
             ELSE IF diff = TypeError
                  THEN [same EXCEPT !.result = TypeError]
                  ELSE [state |-> diff, reading |-> current_reading,
                        timestamp |-> timestamp, result |-> diff]
        ELSE IF timestamp = None
             THEN [state |-> STATE_UNKNOWN, reading |-> None,
                   timestamp |-> None, result |-> STATE_UNKNOWN]
             ELSE same

\* mutant of DerivativeDSMREntity_state: a negative difference is clamped to 0
DerivativeDSMREntity_state_clamped(i) ==
    LET timestamp == get_dsmr_object_attr(i, "datetime")
        current_reading == get_dsmr_object_attr(i, "value")
        raw == Sub(current_reading, self_previous_reading(i))
        diff == IF raw.t = "int" /\ raw.n < 0 THEN IntV(0) ELSE raw
        same == [state |-> d_state[i], reading |-> previous_reading[i],
                 timestamp |-> previous_timestamp[i], result |-> d_state[i]]
    IN  IF NewTimestamp(i)
        THEN IF self_previous_reading(i) = None
             THEN [state |-> d_state[i], reading |-> current_reading,
                   timestamp |-> timestamp, result |-> d_state[i]]
             ELSE IF diff = TypeError
                  THEN [same EXCEPT !.result = TypeError]
                  ELSE [state |-> diff, reading |-> current_reading,
                        timestamp |-> timestamp, result |-> diff]
        ELSE same

\* DerivativeDSMREntity.state (dsmr.py:220-242): the values of _state,
\* _previous_reading and _previous_timestamp it leaves, and what it returns
\* (raised: the subtraction of dsmr.py:236 raised TypeError, before any store)
DerivativeDSMREntity_state(i) ==
    LET timestamp == get_dsmr_object_attr(i, "datetime")
        current_reading == get_dsmr_object_attr(i, "value")
        diff == Sub(current_reading, self_previous_reading(i))
        same == [state |-> d_state[i], reading |-> previous_reading[i],
                 timestamp |-> previous_timestamp[i], result |-> d_state[i]]
    IN  IF NewTimestamp(i)
        THEN IF self_previous_reading(i) = None
             THEN [state |-> d_state[i], reading |-> current_reading,
                   timestamp |-> timestamp, result |-> d_state[i]]
             ELSE IF diff = TypeError
                  THEN [same EXCEPT !.result = TypeError]
                  ELSE [state |-> diff, reading |-> current_reading,
                        timestamp |-> timestamp, result |-> diff]
        ELSE same

\* mutant of SetAttrs: what state recalculates is stored on the class, for
\* all instances
SetAttrs_class(i, r) ==
    [state |-> d_state,
     previous_reading |-> previous_reading,
     previous_timestamp |-> previous_timestamp,
     class |-> IF r.timestamp # previous_timestamp[i]
               THEN [previous_reading |-> r.reading,
                     previous_timestamp |-> r.timestamp, state |-> r.state]
               ELSE class_attrs]

\* the assignments to self._state, self._previous_reading and
\* self._previous_timestamp in state (dsmr.py:237-240), with r what
\* DerivativeDSMREntity_state leaves: they set attributes of the instance, and
\* the class keeps its own
SetAttrs(i, r) ==
    [state |-> [d_state EXCEPT ![i] = r.state],
     previous_reading |-> [previous_reading EXCEPT ![i] = r.reading],
     previous_timestamp |-> [previous_timestamp EXCEPT ![i] = r.timestamp],
     class |-> class_attrs]

\* DerivativeDSMREntity.unit_of_measurement (dsmr.py:244-249)
DerivativeDSMREntity_unit_of_measurement(i) ==
    LET unit == get_dsmr_object_attr(i, "unit") IN
    IF Truthy(unit) THEN Concat(unit, "/h") ELSE None

\* DSMREntity.__init__ (dsmr.py:145-150): the instance's _state; the class
\* attributes of DerivativeDSMREntity (dsmr.py:216-218) are shadowed by it
Init_state == IntV(10)

\* --------------------------------------------------------------- actions
\* mutant of async_setup_platform: the reader is created and started before
\* the entities are handed to async_add_devices
async_setup_platform_reader_first(v) ==
    /\ pc = "start"
    /\ dsmr_version' = v
    /\ devices' = StaticDevices(v)
    /\ telegram' = [i \in 1..Len(StaticDevices(v)) |-> EmptyTelegram]
    /\ d_state' = [i \in 1..Len(StaticDevices(v)) |-> Init_state]
    /\ previous_reading' = [i \in 1..Len(StaticDevices(v)) |-> Unset]
    /\ previous_timestamp' = [i \in 1..Len(StaticDevices(v)) |-> Unset]
    /\ baseline' = [i \in 1..Len(StaticDevices(v)) |-> None]
    /\ latest' = [i \in 1..Len(StaticDevices(v)) |-> None]
    /\ reported' = [i \in 1..Len(StaticDevices(v)) |-> 0]
    /\ gap' = [i \in 1..Len(StaticDevices(v)) |-> None]
    /\ pc' = "reading"
    /\ ret' = NoRet
    /\ frame' = NoFrame
    /\ UNCHANGED <<registered, jobs>>
    /\ UNCHANGED lifeVars
    /\ UNCHANGED class_attrs
    /\ UNCHANGED rfVars

\* async_setup_platform up to its first suspension (dsmr.py:64-100): the
\* entities are built for the configured version and handed to
\* async_add_devices
async_setup_platform(v) ==
    /\ pc = "start"
    /\ dsmr_version' = v
    /\ devices' = StaticDevices(v)
    /\ telegram' = [i \in 1..Len(StaticDevices(v)) |-> EmptyTelegram]
    /\ d_state' = [i \in 1..Len(StaticDevices(v)) |-> Init_state]
    /\ previous_reading' = [i \in 1..Len(StaticDevices(v)) |-> Unset]
    /\ previous_timestamp' = [i \in 1..Len(StaticDevices(v)) |-> Unset]
    /\ baseline' = [i \in 1..Len(StaticDevices(v)) |-> None]
    /\ latest' = [i \in 1..Len(StaticDevices(v)) |-> None]
    /\ reported' = [i \in 1..Len(StaticDevices(v)) |-> 0]
    /\ gap' = [i \in 1..Len(StaticDevices(v)) |-> None]
    /\ pc' = "add_devices"
    /\ ret' = NoRet
    /\ frame' = NoFrame
    /\ UNCHANGED <<registered, jobs>>
    /\ UNCHANGED lifeVars
    /\ UNCHANGED class_attrs
    /\ UNCHANGED rfVars

\* async_add_devices(devices) completes (dsmr.py:100) and the reader is
\* created and started as a task (dsmr.py:111-115); the setup waits at
\* dsmr.py:115 for the connection
create_dsmr_reader ==
    /\ pc = "add_devices"
    /\ registered' = TRUE
    /\ pc' = "reading"
    /\ ret' = NoRet
    /\ frame' = NoFrame
    /\ UNCHANGED <<dsmr_version, devices, telegram, d_state, previous_reading,
                   previous_timestamp, jobs>>
    /\ UNCHANGED lifeVars
    /\ UNCHANGED obsVars
    /\ UNCHANGED class_attrs
    /\ UNCHANGED rfVars

\* the task started at dsmr.py:115 establishes the connection: the transport
\* is open and the reader receives from it
connection_made ==
    /\ pc = "reading"
    /\ transport = "none"
    /\ transport' = "open"
    /\ ret' = NoRet
    /\ frame' = NoFrame
    /\ UNCHANGED <<pc, dsmr_version, devices, registered, telegram, d_state,
                   previous_reading, previous_timestamp, jobs>>
    /\ UNCHANGED <<stop_fired, stop_listener, closes>>
    /\ UNCHANGED obsVars
    /\ UNCHANGED class_attrs
    /\ UNCHANGED rfVars

\* the setup resumes with the transport (dsmr.py:115) and registers
\* transport.close for the stop event (dsmr.py:117); a listener registered
\* after the event was fired is never called
async_listen_once ==
    /\ pc = "reading"
    /\ transport = "open"
    /\ pc' = "done"
    /\ stop_listener' = TRUE
    /\ ret' = NoRet
    /\ frame' = NoFrame
    /\ UNCHANGED <<dsmr_version, devices, registered, telegram, d_state,
                   previous_reading, previous_timestamp, jobs>>
    /\ UNCHANGED <<transport, stop_fired, closes>>
    /\ UNCHANGED obsVars
    /\ UNCHANGED class_attrs
    /\ UNCHANGED rfVars

\* EVENT_HOMEASSISTANT_STOP is fired, once: the listeners registered at that
\* moment are called, each once (async_listen_once, dsmr.py:117)
homeassistant_stop ==
    /\ ~stop_fired
    /\ stop_fired' = TRUE
    /\ IF stop_listener
       THEN /\ transport' = "closed"
            /\ closes' = closes + 1
            /\ stop_listener' = FALSE
       ELSE UNCHANGED <<transport, closes, stop_listener>>
    /\ ret' = NoRet
    /\ frame' = NoFrame
    /\ UNCHANGED <<pc, dsmr_version, devices, registered, telegram, d_state,
                   previous_reading, previous_timestamp, jobs>>
    /\ UNCHANGED obsVars
    /\ UNCHANGED class_attrs
    /\ UNCHANGED rfVars

\* mutant of telegram_decode_error: the frame that does not decode reaches the
\* entities as an empty telegram
telegram_decode_error_dispatched ==
    /\ transport = "open"
    /\ frame' = [kind |-> "failed", telegram |-> EmptyTelegram]
    /\ telegram' = [i \in 1..Len(devices) |-> EmptyTelegram]
    /\ ret' = NoRet
    /\ UNCHANGED <<pc, dsmr_version, devices, registered, d_state,
                   previous_reading, previous_timestamp, jobs>>
    /\ UNCHANGED lifeVars
    /\ UNCHANGED obsVars
    /\ UNCHANGED class_attrs
    /\ UNCHANGED rfVars

\* a frame that does not decode: the reader created at dsmr.py:111-112 calls
\* update_entities_telegram with decoded telegrams only, so the frame is
\* dropped
telegram_decode_error ==
    /\ transport = "open"
    /\ frame' = [kind |-> "failed", telegram |-> EmptyTelegram]
    /\ ret' = NoRet
    /\ UNCHANGED <<pc, dsmr_version, devices, registered, telegram, d_state,
                   previous_reading, previous_timestamp, jobs>>
    /\ UNCHANGED lifeVars
    /\ UNCHANGED obsVars
    /\ UNCHANGED class_attrs
    /\ UNCHANGED rfVars

\* mutant of update_entities_telegram: only the entities whose obis is in the
\* telegram get it and are scheduled for an update
update_entities_telegram_present(t) ==
    /\ transport = "open"
    /\ Len(jobs) + Len(devices) <= MaxJobs
    /\ telegram' = [i \in 1..Len(devices) |->
                       IF devices[i].obis \in DOMAIN t THEN t ELSE telegram[i]]
    /\ jobs' = jobs \o SelectSeq([i \in 1..Len(devices) |-> i],
                                 LAMBDA i : devices[i].obis \in DOMAIN t)
    /\ ret' = NoRet
    /\ frame' = [kind |-> "telegram", telegram |-> t]
    /\ UNCHANGED <<pc, dsmr_version, devices, registered, d_state,
                   previous_reading, previous_timestamp>>
    /\ UNCHANGED lifeVars
    /\ UNCHANGED obsVars
    /\ UNCHANGED class_attrs
    /\ UNCHANGED rfVars

\* update_entities_telegram (dsmr.py:102-107): every entity gets the telegram
\* and one async_update_ha_state job is scheduled per entity, in list order
update_entities_telegram(t) ==
    /\ transport = "open"
    /\ Len(jobs) + Len(devices) <= MaxJobs
    /\ telegram' = [i \in 1..Len(devices) |-> t]
    /\ jobs' = jobs \o [i \in 1..Len(devices) |-> i]
    /\ ret' = NoRet
    /\ frame' = [kind |-> "telegram", telegram |-> t]
    /\ UNCHANGED <<pc, dsmr_version, devices, registered, d_state,
                   previous_reading, previous_timestamp>>
    /\ UNCHANGED lifeVars
    /\ UNCHANGED obsVars
    /\ UNCHANGED class_attrs
    /\ UNCHANGED rfVars

\* device.async_update_ha_state, the job scheduled at dsmr.py:107, for the
\* entity at the head of the queue: it reads the entity's state and unit
ReadEntity ==
    /\ jobs # << >>
    /\ LET i == Head(jobs) IN
       IF devices[i].cls = "DerivativeDSMREntity"
       THEN LET r == DerivativeDSMREntity_state(i) IN
            /\ d_state' = SetAttrs(i, r).state
            /\ previous_reading' = SetAttrs(i, r).previous_reading
            /\ previous_timestamp' = SetAttrs(i, r).previous_timestamp
            /\ class_attrs' = SetAttrs(i, r).class
            /\ ret' = [dev |-> i, state |-> r.result,
                       unit |-> DerivativeDSMREntity_unit_of_measurement(i)]
       ELSE /\ ret' = [dev |-> i, state |-> DSMREntity_state(i),
                       unit |-> DSMREntity_unit_of_measurement(i)]
            /\ UNCHANGED <<d_state, previous_reading, previous_timestamp,
                           class_attrs>>
    /\ jobs' = Tail(jobs)
    /\ frame' = NoFrame
    /\ UNCHANGED <<pc, dsmr_version, devices, registered, telegram>>
    /\ UNCHANGED lifeVars
    /\ UNCHANGED rfVars

async_update_ha_state ==
    /\ ReadEntity
    /\ UNCHANGED obsVars

\* the mark of a gap that the read just made has ended: the previous reading
\* the gap began with
EndedGap(reading) == [t |-> "ended", n |-> reading.n, s |-> ""]

\* what the observer notes of the read of entity i: the object read carried a
\* timestamp other than the one stored (the first such reading is the
\* baseline, the number returned is added up, a gap ends), or no timestamp at
\* all (the previous reading at the start of such a gap is noted)
Observe(i) ==
    LET timestamp == get_dsmr_object_attr(i, "datetime")
        current_reading == get_dsmr_object_attr(i, "value")
    IN IF devices[i].cls = "DerivativeDSMREntity" /\ timestamp.t = "datetime"
          /\ timestamp # self_previous_timestamp(i)
       THEN /\ baseline' = [baseline EXCEPT ![i] =
                               IF @ = None THEN current_reading ELSE @]
            /\ latest' = [latest EXCEPT ![i] = current_reading]
            /\ reported' = [reported EXCEPT ![i] =
                               IF ret'.state.t = "int" THEN @ + ret'.state.n ELSE @]
            /\ gap' = [gap EXCEPT ![i] =
                          IF @.t = "int" THEN EndedGap(@) ELSE None]
       ELSE IF devices[i].cls = "DerivativeDSMREntity" /\ timestamp = None
       THEN /\ gap' = [gap EXCEPT ![i] =
                          IF @.t = "int" THEN @
                          ELSE IF self_previous_reading(i).t = "int"
                               THEN self_previous_reading(i) ELSE None]
            /\ UNCHANGED <<baseline, latest, reported>>
       ELSE IF devices[i].cls = "DerivativeDSMREntity"
       THEN /\ gap' = [gap EXCEPT ![i] = IF @.t = "int" THEN @ ELSE None]
            /\ UNCHANGED <<baseline, latest, reported>>
       ELSE UNCHANGED obsVars

\* the same job, with what its read shows noted by the observer
async_update_ha_state_observed ==
    /\ ReadEntity
    /\ Observe(Head(jobs))

Init ==
    /\ pc = "start"
    /\ dsmr_version = "2.2"
    /\ devices = << >>
    /\ registered = FALSE
    /\ telegram = << >>
    /\ d_state = << >>
    /\ previous_reading = << >>
    /\ previous_timestamp = << >>
    /\ class_attrs = ClassDefaults
    /\ jobs = << >>
    /\ ret = NoRet
    /\ transport = "none"
    /\ stop_fired = FALSE
    /\ stop_listener = FALSE
    /\ closes = 0
    /\ frame = NoFrame
    /\ baseline = << >>
    /\ latest = << >>
    /\ reported = << >>
    /\ gap = << >>
    /\ KNOWN_DEVICE_IDS = << >>
    /\ tasks = << >>
    /\ entities = << >>
    /\ tracking = << >>
    /\ new_devices_group = FALSE
    /\ add_calls = << >>
    /\ group_updates = << >>
    /\ listening = FALSE
    /\ rf_pc = "start"
    /\ update_mode = "none"

Next ==
    \/ \E v \in DSMR_VERSIONS : async_setup_platform(v)
    \/ create_dsmr_reader
    \/ connection_made
    \/ async_listen_once
    \/ \E t \in Telegrams(dsmr_version) : update_entities_telegram(t)
    \/ async_update_ha_state

Spec == Init /\ [][Next]_vars

\* the platform with its faults and its end: frames that do not decode and
\* the stop event, on telegrams of the gas line only
LifeTelegrams(v) ==
    {EmptyTelegram}
    \cup {Line(gas_obis(v), Obj(IntV(d), StrV("m3"), DtV(d))) : d \in Times}

NextLife ==
    \/ \E v \in DSMR_VERSIONS : async_setup_platform(v)
    \/ create_dsmr_reader
    \/ connection_made
    \/ async_listen_once
    \/ homeassistant_stop
    \/ telegram_decode_error
    \/ \E t \in LifeTelegrams(dsmr_version) : update_entities_telegram(t)
    \/ async_update_ha_state

SpecLife == Init /\ [][NextLife]_vars

\* the platform of a version '4' meter under an observer of its derivative
\* entity, on telegrams of the gas line only
ObsTelegrams(v) ==
    {EmptyTelegram, Line(gas_obis(v), Obj(IntV(0), StrV("m3"), None))}
    \cup {Line(gas_obis(v), Obj(IntV(r), StrV("m3"), DtV(d))) :
             r \in Readings, d \in Times}

NextObs ==
    \/ async_setup_platform("4")
    \/ create_dsmr_reader
    \/ connection_made
    \/ async_listen_once
    \/ \E t \in ObsTelegrams(dsmr_version) : update_entities_telegram(t)
    \/ async_update_ha_state_observed

SpecObs == Init /\ [][NextObs]_vars

\* ------------------------------------------- instances of the derivative
\* derivative entities made and driven one at a time: two instances, and one
\* made later
InstanceNames == <<"first", "second", "later">>

\* DerivativeDSMREntity(name, obis): the constructor (dsmr.py:145-150) sets
\* telegram and _state on the instance; _previous_reading and
\* _previous_timestamp are left to the class (dsmr.py:216-217)
new_DerivativeDSMREntity ==
    /\ pc = "start"
    /\ Len(devices) < Len(InstanceNames)
    /\ devices' = Append(devices, Entity("DerivativeDSMREntity",
                                         InstanceNames[Len(devices) + 1],
                                         HOURLY_GAS_METER_READING))
    /\ telegram' = Append(telegram, EmptyTelegram)
    /\ d_state' = Append(d_state, Init_state)
    /\ previous_reading' = Append(previous_reading, Unset)
    /\ previous_timestamp' = Append(previous_timestamp, Unset)
    /\ baseline' = Append(baseline, None)
    /\ latest' = Append(latest, None)
    /\ reported' = Append(reported, 0)
    /\ gap' = Append(gap, None)
    /\ ret' = NoRet
    /\ frame' = NoFrame
    /\ UNCHANGED <<pc, dsmr_version, registered, class_attrs, jobs>>
    /\ UNCHANGED lifeVars
    /\ UNCHANGED rfVars

\* one instance is given a telegram and scheduled for an update, as the body
\* of the loop of update_entities_telegram does (dsmr.py:106-107)
set_telegram(i, t) ==
    /\ pc = "start"
    /\ i \in 1..Len(devices)
    /\ Len(jobs) < MaxPending
    /\ telegram' = [telegram EXCEPT ![i] = t]
    /\ jobs' = Append(jobs, i)
    /\ ret' = NoRet
    /\ frame' = [kind |-> "telegram", telegram |-> t]
    /\ UNCHANGED <<pc, dsmr_version, devices, registered, d_state,
                   previous_reading, previous_timestamp, class_attrs>>
    /\ UNCHANGED lifeVars
    /\ UNCHANGED obsVars
    /\ UNCHANGED rfVars

\* the telegrams the instances are given: a meter reading that rises with
\* the hour
InstTelegrams ==
    {Line(HOURLY_GAS_METER_READING, Obj(IntV(d), StrV("m3"), DtV(d))) : d \in Times}

NextInst ==
    \/ new_DerivativeDSMREntity
    \/ \E i \in 1..Len(InstanceNames), t \in InstTelegrams : set_telegram(i, t)
    \/ async_update_ha_state

SpecInst == Init /\ [][NextInst]_vars

\* ================================================================ rflink
\* SENSOR_KEYS_AND_UNITS (rflink.py:22-25), in the order .items() yields
SENSOR_KEYS == <<"temperature", "humidity">>
SENSOR_KEYS_AND_UNITS ==
    [k \in {"temperature", "humidity"} |->
        IF k = "temperature" THEN "°C" ELSE "%"]

\* the sensor packets fired on the bus: a dict with the identifying fields
\* protocol and id, and any of the value keys temperature, humidity (in the
\* table) and battery (not in it)
PacketIds == {"0334", "0335"}
PacketValueKeys == {"temperature", "humidity", "battery"}
PacketValue(k, v) == IF k = "battery" THEN StrV("ok") ELSE IntV(v)
Packet(id, keys, v) ==
    [k \in {"protocol", "id"} \cup keys |->
        IF k = "protocol" THEN StrV("alectov1")
        ELSE IF k = "id" THEN StrV(id)
        ELSE PacketValue(k, v)]
Packets ==
    {Packet(id, keys, v) : id \in PacketIds, keys \in SUBSET PacketValueKeys,
                           v \in {0, 21}}

\* the later packets dispatched to existing entities: a temperature reading
\* of either device (one key of the table is enough to change an entity that
\* exists; humidity is handled by the same code)
ValuePackets ==
    {Packet(id, {"temperature"}, v) : id \in PacketIds, v \in {0, 21}}

\* rflink.serialize_id(packet) (rflink.py:42): '<protocol>_<id>'
serialize_id(packet) == packet["protocol"].s \o "_" \o packet["id"].s

\* the elements of a list
Elems(seq) == {seq[i] : i \in 1..Len(seq)}

\* RflinkSensor.__init__ through partial(RflinkSensor, device_id, hass)
\* (rflink.py:45, 74-78); entity_id is given by the entity platform when the
\* entity is added
RflinkSensor(device_id, value_key, unit) ==
    [device_id |-> device_id, value_key |-> value_key, unit |-> unit,
     state |-> None, entity_id |-> 0]

\* the loop of rflink.py:46-50 over the first n table entries: one entity per
\* table key that is in the packet
RECURSIVE NewDevicesUpTo(_, _)
NewDevicesUpTo(packet, n) ==
    IF n = 0 THEN << >>
    ELSE LET sensor_key == SENSOR_KEYS[n]
             unit == SENSOR_KEYS_AND_UNITS[sensor_key]
             rest == NewDevicesUpTo(packet, n - 1)
         IN IF sensor_key \in DOMAIN packet
            THEN Append(rest, RflinkSensor(serialize_id(packet), sensor_key, unit))
            ELSE rest

\* mutant of NewDevices: an entity for every table key, in the packet or not
NewDevices_full_table(packet) ==
    [n \in 1..Len(SENSOR_KEYS) |->
        RflinkSensor(serialize_id(packet), SENSOR_KEYS[n],
                     SENSOR_KEYS_AND_UNITS[SENSOR_KEYS[n]])]

\* the list `devices` of add_new_device (rflink.py:46-50)
NewDevices(packet) == NewDevicesUpTo(packet, Len(SENSOR_KEYS))

\* mutant of KnownAfterAppend: the id is not recorded
KnownAfterAppend_forgotten(device_id) == KNOWN_DEVICE_IDS

\* KNOWN_DEVICE_IDS.append(device_id) (rflink.py:44)
KnownAfterAppend(device_id) == Append(KNOWN_DEVICE_IDS, device_id)

\* RflinkSensor._handle_packet (rflink.py:80-82), reached through
\* device.match_packet(packet) (rflink.py:54)
handle_packet(device, packet) ==
    [device EXCEPT !.state = packet[device.value_key]]

\* mutant of match_packet: the packet is matched to no entity
match_packet_unmatched(device, packet) == device

\* device.match_packet(packet) (called at rflink.py:54, defined by the Rflink
\* component): the packet is handled by the entities of its device whose key
\* it holds
match_packet(device, packet) ==
    IF serialize_id(packet) = device.device_id
       /\ device.value_key \in DOMAIN packet
    THEN handle_packet(device, packet)
    ELSE device

\* the identifying fields of a packet
IdFields(packet) == [k \in {"protocol", "id"} |-> packet[k]]

\* a handler that has returned: of its event only the identifying fields are
\* kept
Returned(task) ==
    [packet |-> IdFields(task.packet), pc |-> "done", devices |-> << >>,
     entity_ids |-> << >>]

\* async_setup_platform of rflink.py from its call to its first suspension
\* (rflink.py:28-62): when the config names a group the setup waits in
\* group.Group.async_create_group (rflink.py:32-34), nothing being registered
\* yet; otherwise new_devices_group is None (rflink.py:36) and add_new_device
\* is registered on the bus (rflink.py:62)
rflink_async_setup_platform(group) ==
    /\ rf_pc = "start"
    /\ UNCHANGED update_mode
    /\ IF group
       THEN /\ rf_pc' = "create_group"
            /\ UNCHANGED <<listening, new_devices_group>>
       ELSE /\ rf_pc' = "done"
            /\ new_devices_group' = FALSE
            /\ listening' = TRUE
    /\ UNCHANGED <<KNOWN_DEVICE_IDS, tasks, entities, tracking, add_calls,
                   group_updates>>
    /\ UNCHANGED dsmrVars

\* the two ways a group can take a membership update
UpdateModes == {"call", "completion"}

\* async_setup_platform of rflink.py resumed when the group is created
\* (rflink.py:33-34, 62): the group, created with no entity ids, is bound and
\* add_new_device is registered on the bus; the group component, which is
\* not part of this platform, is of one of the two kinds
rflink_async_setup_platform_group_created ==
    /\ rf_pc = "create_group"
    /\ rf_pc' = "done"
    /\ \E mode \in UpdateModes : update_mode' = mode
    /\ new_devices_group' = TRUE
    /\ tracking' = << >>
    /\ listening' = TRUE
    /\ UNCHANGED <<KNOWN_DEVICE_IDS, tasks, entities, add_calls, group_updates>>
    /\ UNCHANGED dsmrVars

\* add_new_device from the event to its first suspension (rflink.py:39-51):
\* a known id ends the handler; a new id is recorded, its entities are built
\* and async_add_devices is called
add_new_device(packet) ==
    /\ listening
    /\ Len(tasks) < MaxEvents
    /\ LET device_id == serialize_id(packet) IN
       IF device_id \notin Elems(KNOWN_DEVICE_IDS)
       THEN /\ KNOWN_DEVICE_IDS' = KnownAfterAppend(device_id)
            /\ tasks' = Append(tasks, [packet |-> packet, pc |-> "add_devices",
                                       devices |-> NewDevices(packet),
                                       entity_ids |-> << >>])
            /\ add_calls' = Append(add_calls, [task |-> Len(tasks) + 1,
                                               packet |-> packet,
                                               devices |-> NewDevices(packet)])
       ELSE /\ tasks' = Append(tasks, Returned([packet |-> packet]))
            /\ UNCHANGED <<KNOWN_DEVICE_IDS, add_calls>>
    /\ UNCHANGED <<rf_pc, update_mode, listening, entities, tracking, new_devices_group, group_updates>>
    /\ UNCHANGED dsmrVars

\* the list handed to the group update (rflink.py:59-60):
\* list(new_devices_group.tracking) + [device.entity_id for device in devices]
TrackedEntityIds(added) ==
    tracking \o [i \in 1..Len(added) |-> added[i].entity_id]

\* mutant of async_update_tracked_entity_ids: the update is not taken
async_update_tracked_entity_ids_untaken(entity_ids) == tracking

\* new_devices_group.async_update_tracked_entity_ids(entity_ids) (called at
\* rflink.py:58-60, defined by the group component): the group tracks the ids
\* it is given, from the call on or from the completion of the update on
async_update_tracked_entity_ids(entity_ids) == entity_ids

\* add_new_device resumed after async_add_devices (rflink.py:51-60): the
\* entities are registered, each processes the packet, and when a group is
\* configured its update is called with the tracking read now and the handler
\* waits for it at "group", its devices being the registered entities;
\* without a group the handler returns
add_new_device_added(n) ==
    /\ n \in 1..Len(tasks)
    /\ tasks[n].pc = "add_devices"
    /\ LET task == tasks[n]
           added == [i \in 1..Len(task.devices) |->
                       match_packet([task.devices[i] EXCEPT
                                        !.entity_id = Len(entities) + i],
                                    task.packet)]
           ids == TrackedEntityIds(added)
       IN /\ entities' = entities \o added
          /\ IF new_devices_group
             THEN /\ tasks' = [tasks EXCEPT ![n] = [task EXCEPT
                                        !.pc = "group",
                                        !.devices = added,
                                        !.entity_ids = ids]]
                  /\ tracking' = IF update_mode = "call"
                                 THEN async_update_tracked_entity_ids(ids)
                                 ELSE tracking
                  /\ group_updates' = Append(group_updates,
                                              [task |-> n, entity_ids |-> ids])
             ELSE /\ tasks' = [tasks EXCEPT ![n] = Returned(task)]
                  /\ UNCHANGED <<tracking, group_updates>>
    /\ UNCHANGED <<rf_pc, update_mode, listening, KNOWN_DEVICE_IDS, new_devices_group, add_calls>>
    /\ UNCHANGED dsmrVars

\* new_devices_group.async_update_tracked_entity_ids completes
\* (rflink.py:58-60) and the handler returns; a group that takes the list at
\* completion tracks, from now, the ids the call was made with
add_new_device_grouped(n) ==
    /\ n \in 1..Len(tasks)
    /\ tasks[n].pc = "group"
    /\ tracking' = IF update_mode = "completion"
                   THEN async_update_tracked_entity_ids(tasks[n].entity_ids)
                   ELSE tracking
    /\ tasks' = [tasks EXCEPT ![n] = Returned(tasks[n])]
    /\ UNCHANGED <<rf_pc, update_mode, listening, KNOWN_DEVICE_IDS, entities,
                   new_devices_group, add_calls, group_updates>>
    /\ UNCHANGED dsmrVars

\* a packet of a known device is dispatched to the registered entities (the
\* Rflink component's delivery of the bus event to existing entities): each
\* entity of the packet's device whose key the packet holds takes its value;
\* the devices of a handler waiting for the group update are those entities
dispatch_packet(packet) ==
    /\ listening
    /\ serialize_id(packet) \in Elems(KNOWN_DEVICE_IDS)
    /\ entities' = [i \in 1..Len(entities) |-> match_packet(entities[i], packet)]
    /\ tasks' = [n \in 1..Len(tasks) |->
                   IF tasks[n].pc = "group"
                   THEN [tasks[n] EXCEPT !.devices =
                           [i \in 1..Len(tasks[n].devices) |->
                               match_packet(tasks[n].devices[i], packet)]]
                   ELSE tasks[n]]
    /\ UNCHANGED <<rf_pc, update_mode, listening, KNOWN_DEVICE_IDS, tracking,
                   new_devices_group, add_calls, group_updates>>
    /\ UNCHANGED dsmrVars

NextRF ==
    \/ \E group \in BOOLEAN : rflink_async_setup_platform(group)
    \/ rflink_async_setup_platform_group_created
    \/ \E packet \in Packets : add_new_device(packet)
    \/ \E n \in 1..MaxEvents : add_new_device_added(n)
    \/ \E n \in 1..MaxEvents : add_new_device_grouped(n)
    \/ \E packet \in ValuePackets : dispatch_packet(packet)

SpecRF == Init /\ [][NextRF]_vars

\* ================================================================ claims
\* the entity read by the step just taken, and shorthands on it
IsDerivative(i) == devices[i].cls = "DerivativeDSMREntity"
IsBase(i) == devices[i].cls = "DSMREntity"
HasLine(i) == devices[i].obis \in DOMAIN telegram[i]
Devs == 1..Len(devices)

\* ------------------------------------------------------------------- C1
\* C1 (as claimed): a derivative entity that has stored no timestamp yet
\* returns STATE_UNKNOWN from state, at every read up to and including the
\* one that sees the first timestamped object.
C1_FreshDerivativeReturnsUnknown ==
    [][\A i \in Devs :
          (ret'.dev = i /\ IsDerivative(i) /\ self_previous_timestamp(i) = None)
          => ret'.state = STATE_UNKNOWN]_vars

\* ------------------------------------------------------------------- C2
\* C2: a derivative entity with a baseline (previous reading p, previous
\* timestamp tp) that reads a numeric value v under a timestamp t # tp returns
\* v - p, negative or not, and then stores state v - p, reading v, timestamp t.
C2_NewTimestampYieldsDelta ==
    [][\A i \in Devs :
          LET t == get_dsmr_object_attr(i, "datetime")
              v == get_dsmr_object_attr(i, "value")
          IN (/\ ret'.dev = i /\ IsDerivative(i)
              /\ previous_reading[i].t = "int" /\ previous_timestamp[i].t = "datetime"
              /\ t.t = "datetime" /\ t # previous_timestamp[i] /\ v.t = "int")
             => /\ ret'.state = IntV(v.n - previous_reading[i].n)
                /\ d_state'[i] = IntV(v.n - previous_reading[i].n)
                /\ previous_reading'[i] = v
                /\ previous_timestamp'[i] = t]_vars

\* a negative delta was just returned for a reading stamped earlier than the
\* baseline's timestamp
C2_Witness ==
    /\ ret.dev \in Devs /\ IsDerivative(ret.dev)
    /\ ret.state = IntV(-1)
    /\ previous_timestamp[ret.dev] = DtV(1)
    /\ previous_reading[ret.dev] = IntV(0)

\* ------------------------------------------------------------------- C3
\* C3: a derivative entity reading an object whose timestamp equals the
\* stored previous timestamp returns the stored state and changes none of
\* state, previous reading, previous timestamp.
C3_SameTimestampIsNoOp ==
    [][\A i \in Devs :
          (/\ ret'.dev = i /\ IsDerivative(i)
           /\ get_dsmr_object_attr(i, "datetime") = self_previous_timestamp(i))
          => /\ ret'.state = d_state[i]
             /\ d_state'[i] = d_state[i]
             /\ previous_reading'[i] = previous_reading[i]
             /\ previous_timestamp'[i] = previous_timestamp[i]]_vars

\* the entity was just read on a record that repeats the stored timestamp with
\* another value than the stored reading, after a delta had been computed
C3_Witness ==
    /\ ret.dev \in Devs /\ IsDerivative(ret.dev)
    /\ previous_timestamp[ret.dev].t = "datetime"
    /\ get_dsmr_object_attr(ret.dev, "datetime") = previous_timestamp[ret.dev]
    /\ get_dsmr_object_attr(ret.dev, "value") # previous_reading[ret.dev]
    /\ ret.state = IntV(1)

\* ------------------------------------------------------------------- C4
\* C4 (as claimed): whenever the telegram an entity holds lacks the entity's
\* obis, the entity's state is STATE_UNKNOWN and its unit is None, whatever
\* the entity's class.
C4_MissingLineUnknownForAll ==
    \A i \in Devs :
        (ret.dev = i /\ ~HasLine(i))
        => (ret.state = STATE_UNKNOWN /\ ret.unit = None)

\* C4 (amended): on a telegram lacking the entity's obis the unit is None for
\* every entity; the state is STATE_UNKNOWN for a DSMREntity (tariff or not),
\* while a DerivativeDSMREntity returns its stored _state and leaves its
\* state, previous reading and previous timestamp as they were.
C4_MissingLine ==
    [][\A i \in Devs :
          (ret'.dev = i /\ ~HasLine(i))
          => /\ ret'.unit = None
             /\ IsBase(i) => ret'.state = STATE_UNKNOWN
             /\ IsDerivative(i) =>
                   /\ ret'.state = d_state[i]
                   /\ d_state'[i] = d_state[i]
                   /\ previous_reading'[i] = previous_reading[i]
                   /\ previous_timestamp'[i] = previous_timestamp[i]]_vars

\* a derivative entity just returned a delta computed from earlier telegrams
\* although its telegram lacks the gas line
C4_Witness ==
    /\ ret.dev \in Devs /\ IsDerivative(ret.dev)
    /\ ~HasLine(ret.dev)
    /\ ret.state = IntV(2) /\ ret.unit = None

\* ------------------------------------------------------------------- C5
\* C5 (as claimed): a DSMREntity not bound to the tariff whose telegram holds
\* its obis with a value v (not None) returns exactly v, zero included, and it
\* returns STATE_UNKNOWN only when the line or its value is missing.
C5_BaseReturnsValue ==
    \A i \in Devs :
        (ret.dev = i /\ IsBase(i) /\ devices[i].obis # ELECTRICITY_ACTIVE_TARIFF)
        => LET v == get_dsmr_object_attr(i, "value") IN
           /\ (HasLine(i) /\ v # None) => ret.state = v
           /\ ret.state = STATE_UNKNOWN => (~HasLine(i) \/ v = None)

\* ------------------------------------------------------------------- C6
\* C6: the entity bound to ELECTRICITY_ACTIVE_TARIFF returns 'low' for the
\* value '0001', 'normal' for '0002', and STATE_UNKNOWN for any other value
\* and for a telegram without the line; never the code itself.
C6_TariffMapping ==
    \A i \in Devs :
        (ret.dev = i /\ IsBase(i) /\ devices[i].obis = ELECTRICITY_ACTIVE_TARIFF)
        => LET v == IF HasLine(i) THEN telegram[i][devices[i].obis].value
                    ELSE None
           IN /\ v = StrV("0001") => ret.state = StrV("low")
              /\ v = StrV("0002") => ret.state = StrV("normal")
              /\ v \notin {StrV("0001"), StrV("0002")} => ret.state = STATE_UNKNOWN
              /\ ret.state \in {StrV("low"), StrV("normal"), STATE_UNKNOWN}

\* the tariff entity was just read on a telegram with rate code '0001'
C6_Witness ==
    /\ ret.dev \in Devs
    /\ devices[ret.dev].obis = ELECTRICITY_ACTIVE_TARIFF
    /\ HasLine(ret.dev)
    /\ telegram[ret.dev][ELECTRICITY_ACTIVE_TARIFF].value = StrV("0001")
    /\ ret.state = StrV("low")

\* ------------------------------------------------------------------- C7
\* C7 (as claimed): a derivative entity's unit is the unit of its telegram's
\* object with '/h' appended ('m3' gives 'm3/h'), and None exactly when that
\* unit is None or the line is missing; never the bare unit.
C7_DerivativeUnit ==
    \A i \in Devs :
        (ret.dev = i /\ IsDerivative(i))
        => LET u == IF HasLine(i) THEN telegram[i][devices[i].obis].unit
                    ELSE None
           IN /\ (u = None) <=> (ret.unit = None)
              /\ u = StrV("m3") => ret.unit = StrV("m3/h")
              /\ u # None => (ret.unit.t = "str" /\ ret.unit.s = u.s \o "/h")
              /\ u # None => ret.unit # u

\* ------------------------------------------------------------------- C8
\* the device id of the event handler n was started for
TaskId(n) == serialize_id(tasks[n].packet)
\* handler n is not the first one started for its device id
LaterPacket(n) == \E m \in 1..(n - 1) : TaskId(m) = TaskId(n)

\* C8: whatever the interleaving of the handlers, KNOWN_DEVICE_IDS holds no id
\* twice; async_add_devices and the group update are each called at most once
\* per device id, and only by the handler of the first packet with that id;
\* the handler of a later packet with the id has returned having created
\* nothing; no two registered entities share device id and value key.
C8_CreatedAtMostOnce ==
    /\ \A i, j \in 1..Len(KNOWN_DEVICE_IDS) :
          i # j => KNOWN_DEVICE_IDS[i] # KNOWN_DEVICE_IDS[j]
    /\ \A i, j \in 1..Len(add_calls) :
          i # j => TaskId(add_calls[i].task) # TaskId(add_calls[j].task)
    /\ \A i, j \in 1..Len(group_updates) :
          i # j => TaskId(group_updates[i].task) # TaskId(group_updates[j].task)
    /\ \A i \in 1..Len(add_calls) : ~LaterPacket(add_calls[i].task)
    /\ \A i \in 1..Len(group_updates) : ~LaterPacket(group_updates[i].task)
    /\ \A n \in 1..Len(tasks) :
          LaterPacket(n) => (tasks[n].pc = "done" /\ tasks[n].devices = << >>)
    /\ \A i, j \in 1..Len(entities) :
          (i # j /\ entities[i].device_id = entities[j].device_id)
          => entities[i].value_key # entities[j].value_key

\* a second packet with the same id was handled while the first packet's
\* handler was still suspended in async_add_devices, and a third after it
\* had registered its entities and called the group update
C8_Witness ==
    /\ Len(tasks) = 3
    /\ TaskId(2) = TaskId(1) /\ TaskId(3) = TaskId(1)
    /\ tasks[1].pc = "group"
    /\ Len(add_calls) = 1 /\ Len(group_updates) = 1
    /\ Len(entities) = 2
    /\ KNOWN_DEVICE_IDS = <<"alectov1_0334">>

\* ------------------------------------------------------------------- C9
\* the table of rflink.py:22-25 as (key, unit) pairs
ExpectedKeysAndUnits == {<<"temperature", "°C">>, <<"humidity", "%">>}
KeyUnitPairs(devs) == {<<devs[i].value_key, devs[i].unit>> : i \in 1..Len(devs)}

\* C9: the entities handed to async_add_devices for a new device id are one
\* per table key that is in the packet, bound to the packet's device id, that
\* key and the table's unit; a table key the packet lacks and a packet key
\* the table lacks give no entity.
C9_OneChannelPerKnownKey ==
    /\ \A c \in 1..Len(add_calls) :
          LET call == add_calls[c]
              want == {e \in ExpectedKeysAndUnits : e[1] \in DOMAIN call.packet}
          IN /\ KeyUnitPairs(call.devices) = want
             /\ Len(call.devices) = Cardinality(want)
             /\ \A i \in 1..Len(call.devices) :
                   call.devices[i].device_id = serialize_id(call.packet)
    /\ KeyUnitPairs(entities) \subseteq ExpectedKeysAndUnits

\* a packet with temperature and battery but no humidity gave exactly one
\* registered entity, and a packet with battery alone gave none
C9_Witness ==
    /\ Len(add_calls) = 2
    /\ DOMAIN add_calls[1].packet = {"protocol", "id", "temperature", "battery"}
    /\ DOMAIN add_calls[2].packet = {"protocol", "id", "battery"}
    /\ Len(add_calls[2].devices) = 0
    /\ \A n \in 1..Len(tasks) : tasks[n].pc = "done"
    /\ Len(entities) = 1
    /\ entities[1].value_key = "temperature" /\ entities[1].unit = "°C"
    /\ entities[1].state = IntV(21)

\* ------------------------------------------------------------------ C10
\* the nine (class, name) pairs every setup creates, in order
ExpectedNames ==
    << <<"DSMREntity", "Power Consumption">>,
       <<"DSMREntity", "Power Production">>,
       <<"DSMREntity", "Power Tariff">>,
       <<"DSMREntity", "Power Consumption (low)">>,
       <<"DSMREntity", "Power Consumption (normal)">>,
       <<"DSMREntity", "Power Production (low)">>,
       <<"DSMREntity", "Power Production (normal)">>,
       <<"DSMREntity", "Gas Consumption">>,
       <<"DerivativeDSMREntity", "Hourly Gas Consumption">> >>

\* the obis of the seven entities that do not depend on the version
ExpectedPowerObis ==
    << CURRENT_ELECTRICITY_USAGE, CURRENT_ELECTRICITY_DELIVERY,
       ELECTRICITY_ACTIVE_TARIFF, ELECTRICITY_USED_TARIFF_1,
       ELECTRICITY_USED_TARIFF_2, ELECTRICITY_DELIVERED_TARIFF_1,
       ELECTRICITY_DELIVERED_TARIFF_2 >>

\* C10: once setup has built its entities they are, for the configured
\* version, always the same nine: the seven power/tariff entities, then 'Gas
\* Consumption' and the derivative 'Hourly Gas Consumption', both bound to
\* HOURLY_GAS_METER_READING for version '4' and to GAS_METER_READING for
\* '2.2'; nothing else differs between the versions.
C10_StaticDevicesFixed ==
    pc # "start" =>
        /\ Len(devices) = 9
        /\ \A i \in 1..9 : <<devices[i].cls, devices[i].name>> = ExpectedNames[i]
        /\ \A i \in 1..7 : devices[i].obis = ExpectedPowerObis[i]
        /\ devices[8].obis = devices[9].obis
        /\ dsmr_version = "4" => devices[8].obis = HOURLY_GAS_METER_READING
        /\ dsmr_version = "2.2" => devices[8].obis = GAS_METER_READING
        /\ \A i \in 1..9 :
              (StaticDevices("4")[i] # StaticDevices("2.2")[i]) <=> i \in {8, 9}

\* setup has run for version '4'
C10_Witness ==
    /\ pc = "reading" /\ dsmr_version = "4"
    /\ devices[8].obis = HOURLY_GAS_METER_READING
    /\ devices[9].cls = "DerivativeDSMREntity"


\* ------------------------------------------------------------------ C11
\* C11 (as claimed): when the stop event has fired, at whatever point of the
\* platform's life, the transport ends up closed: once the setup has finished
\* and the stop event has been fired the transport is closed; the stop
\* listener closes it at most once; and no telegram is dispatched on a closed
\* transport.
C11_StopClosesTransport ==
    /\ (stop_fired /\ pc = "done") => transport = "closed"
    /\ closes <= 1
    /\ transport = "closed" => frame.kind # "telegram"


\* ------------------------------------------------------------------ C12
\* C12: a frame that does not decode reaches no entity: the step that drops
\* it leaves every entity's telegram, every derivative's state, previous
\* reading and previous timestamp, and the queue of scheduled updates as they
\* were, and with them the whole of the platform's state, so the next
\* telegram is handled from the state the platform had before the frame.
C12_DecodeErrorIsolated ==
    [][frame'.kind = "failed" =>
          /\ UNCHANGED <<telegram, d_state, previous_reading, previous_timestamp>>
          /\ UNCHANGED jobs
          /\ UNCHANGED <<pc, dsmr_version, devices, registered, lifeVars>>]_vars

\* a frame was dropped while entities hold a gas reading, the derivative has
\* a baseline and updates are still scheduled
C12_Witness ==
    /\ frame.kind = "failed"
    /\ jobs # << >>
    /\ \E i \in 1..Len(devices) :
          /\ devices[i].cls = "DerivativeDSMREntity"
          /\ devices[i].obis \in DOMAIN telegram[i]
          /\ previous_reading[i].t = "int"


\* ------------------------------------------------------------------ C13
\* C13: a read of a derivative entity whose telegram has no timestamp for its
\* obis (the line is missing, or its object has no datetime) returns the
\* stored state and leaves the state, the previous reading and the previous
\* timestamp as they were; and the read of a new timestamp that ends such a
\* gap returns the reading minus the previous reading stored when the gap
\* began.
C13_NoTimestampKeepsBaseline ==
    [][\A i \in Devs :
          (ret'.dev = i /\ IsDerivative(i)) =>
             /\ get_dsmr_object_attr(i, "datetime") = None =>
                   /\ ret'.state = d_state[i]
                   /\ d_state'[i] = d_state[i]
                   /\ previous_reading'[i] = previous_reading[i]
                   /\ previous_timestamp'[i] = previous_timestamp[i]
             /\ (/\ gap[i].t = "int"
                 /\ get_dsmr_object_attr(i, "datetime").t = "datetime"
                 /\ get_dsmr_object_attr(i, "datetime") # previous_timestamp[i]) =>
                   ret'.state = IntV(get_dsmr_object_attr(i, "value").n - gap[i].n)]_vars

\* the read just made ended a gap: it returned a delta, other than zero,
\* against the previous reading the gap began with
C13_Witness ==
    \E i \in Devs :
       /\ ret.dev = i /\ IsDerivative(i)
       /\ gap[i].t = "ended"
       /\ ret.state = IntV(latest[i].n - gap[i].n)
       /\ ret.state.n # 0


\* ------------------------------------------------------------------ C14
\* C14: a call of update_entities_telegram(t) leaves every entity holding
\* exactly t, whatever it held before, and appends exactly one update job per
\* entity, in list order, whether t has the entity's obis or not; and at all
\* times all entities hold the same telegram.
C14_DispatchReplacesUniformly ==
    [][/\ \A i \in 1..Len(devices') : telegram'[i] = telegram'[1]
       /\ frame'.kind = "telegram" =>
             /\ \A i \in 1..Len(devices') : telegram'[i] = frame'.telegram
             /\ jobs' = jobs \o [i \in 1..Len(devices') |-> i]]_vars

\* a telegram was just dispatched that lacks the obis of some entities and has
\* that of others, while updates scheduled for an earlier telegram are still
\* queued
C14_Witness ==
    /\ frame.kind = "telegram"
    /\ \E i \in Devs : devices[i].obis \notin DOMAIN frame.telegram
    /\ \E i \in Devs : devices[i].obis \in DOMAIN frame.telegram
    /\ \A i \in Devs : telegram[i] = frame.telegram
    /\ Len(jobs) > Len(devices)


\* ------------------------------------------------------------------ C15
\* C15: the reader is created only when all nine entities are built and
\* async_add_devices has returned, so a telegram is dispatched and an update
\* is scheduled only with all entities registered; and once the entities are
\* built the list never changes, so none is created after a telegram.
C15_RegisteredBeforeReader ==
    [][/\ (\/ pc' \in {"reading", "done"}
           \/ transport' # "none"
           \/ frame'.kind = "telegram"
           \/ jobs' # << >>) => (registered' /\ Len(devices') = 9)
       /\ frame'.kind = "telegram" => (registered /\ devices' = devices)
       /\ pc # "start" => devices' = devices]_vars

\* a telegram was just dispatched, to registered entities, with the setup
\* still waiting at the connection
C15_Witness ==
    /\ frame.kind = "telegram"
    /\ registered
    /\ pc = "reading"
    /\ Len(jobs) = Len(devices)


\* ------------------------------------------------------------------ C16
\* C16 (as claimed): running a scheduled update of an entity only reads: it
\* changes no entity's telegram and no derivative entity's state, previous
\* reading or previous timestamp.
C16_UpdatesOnlyRead ==
    [][ret'.dev # 0 =>
          UNCHANGED <<telegram, d_state, previous_reading, previous_timestamp>>]_vars

\* entity i's derivative state is changed by the step
DerivativeChanged(i) ==
    \/ d_state'[i] # d_state[i]
    \/ previous_reading'[i] # previous_reading[i]
    \/ previous_timestamp'[i] # previous_timestamp[i]

\* C16 (amended): running a scheduled update changes no entity's telegram; it
\* changes state, previous reading or previous timestamp of no entity but the
\* one it reads, and of that one only if it is a derivative entity whose
\* telegram carries a timestamp other than the stored previous timestamp, in
\* which case the timestamp and the reading read are stored. A dispatch
\* changes telegrams only, never a derivative's state.
C16_ReadStoresOnNewTimestamp ==
    [][/\ ret'.dev # 0 =>
            /\ telegram' = telegram
            /\ \A i \in Devs :
                  DerivativeChanged(i) =>
                     /\ i = ret'.dev
                     /\ IsDerivative(i)
                     /\ get_dsmr_object_attr(i, "datetime").t = "datetime"
                     /\ get_dsmr_object_attr(i, "datetime") # previous_timestamp[i]
                     /\ previous_timestamp'[i] = get_dsmr_object_attr(i, "datetime")
                     /\ previous_reading'[i] = get_dsmr_object_attr(i, "value")
       /\ frame'.kind = "telegram" =>
            UNCHANGED <<d_state, previous_reading, previous_timestamp>>]_vars

\* the derivative entity was just read and its read stored a delta, a reading
\* and a timestamp, with updates of a later telegram already queued
C16_Witness ==
    /\ ret.dev \in Devs /\ IsDerivative(ret.dev)
    /\ ret.state = IntV(2) /\ d_state[ret.dev] = IntV(2)
    /\ previous_reading[ret.dev] = IntV(2)
    /\ previous_timestamp[ret.dev] = DtV(2)
    /\ jobs # << >>


\* ------------------------------------------------------------------ C17
\* C17: with several derivative instances, a read of one instance's state
\* leaves every other instance's state, previous reading and previous
\* timestamp, as that instance reads them, unchanged; the class attributes
\* stay as the module defines them; and an instance made later starts with
\* no previous reading and no previous timestamp.
C17_InstanceScoped ==
    [][/\ class_attrs' = ClassDefaults
       /\ \A i \in Devs :
             ret'.dev = i =>
                \A j \in Devs \ {i} :
                   /\ d_state'[j] = d_state[j]
                   /\ Lookup(previous_reading'[j], class_attrs'.previous_reading)
                         = self_previous_reading(j)
                   /\ Lookup(previous_timestamp'[j], class_attrs'.previous_timestamp)
                         = self_previous_timestamp(j)
       /\ Len(devices') > Len(devices) =>
             /\ Lookup(previous_reading'[Len(devices')],
                       class_attrs'.previous_reading) = None
             /\ Lookup(previous_timestamp'[Len(devices')],
                       class_attrs'.previous_timestamp) = None]_vars

\* the first instance has just computed a delta, the second holds another
\* baseline and no delta, and the one made later has stored nothing
C17_Witness ==
    /\ Len(devices) = 3
    /\ ret.dev = 1 /\ ret.state = IntV(1)
    /\ previous_reading[1] = IntV(2)
    /\ previous_reading[2] = IntV(1) /\ d_state[2] = Init_state
    /\ previous_reading[3] = Unset /\ self_previous_reading(3) = None


\* ------------------------------------------------------------------ C18
\* handler n resumes after async_add_devices in the step
Resumed(n) == tasks[n].pc = "add_devices" /\ tasks'[n].pc # "add_devices"
\* handler n returns in the step
Completed(n) == tasks[n].pc # "done" /\ tasks'[n].pc = "done"

\* C18 (as claimed): when the handler of a discovering packet returns, every
\* entity it created is registered and holds the value the discovering
\* packet has for its key, a key the packet holds.
C18_ValueAtCompletion ==
    [][\A c \in 1..Len(add_calls) :
          LET call == add_calls[c] IN
          Completed(call.task) =>
             \A k \in 1..Len(call.devices) :
                /\ call.devices[k].value_key \in DOMAIN call.packet
                /\ \E e \in Elems(entities') :
                      /\ e.device_id = call.devices[k].device_id
                      /\ e.value_key = call.devices[k].value_key
                      /\ e.entity_id # 0
                      /\ e.state = call.packet[e.value_key]]_vars

\* C18 (amended): for every call of async_add_devices made for a new device
\* id: no entity is built for a key the packet lacks; while the call is
\* pending its entities are unregistered and have processed nothing; in the
\* step in which the handler resumes, its entities are registered and each
\* holds the value the discovering packet has for its key; without a group
\* the handler returns in that step.
C18_DiscoveryPacketProcessed ==
    [][\A c \in 1..Len(add_calls) :
          LET call == add_calls[c]
              n == call.task
          IN /\ \A k \in 1..Len(call.devices) :
                   call.devices[k].value_key \in DOMAIN call.packet
             /\ tasks[n].pc = "add_devices" =>
                   /\ \A k \in 1..Len(tasks[n].devices) :
                         /\ tasks[n].devices[k].state = None
                         /\ tasks[n].devices[k].entity_id = 0
                   /\ \A e \in Elems(entities) :
                         e.device_id # serialize_id(call.packet)
             /\ Resumed(n) =>
                   /\ Len(entities') = Len(entities) + Len(call.devices)
                   /\ \A k \in 1..Len(call.devices) :
                         LET e == entities'[Len(entities) + k] IN
                         /\ e.device_id = call.devices[k].device_id
                         /\ e.value_key = call.devices[k].value_key
                         /\ e.entity_id # 0
                         /\ e.state = call.packet[e.value_key]
                   /\ ~new_devices_group => tasks'[n].pc = "done"]_vars

\* a handler waits for the group update after its packet, of temperature 21,
\* humidity 21 and a battery level, made two registered entities that hold 21
C18_Witness ==
    \E n \in 1..Len(add_calls) :
       /\ tasks[add_calls[n].task].pc = "group"
       /\ {"temperature", "humidity", "battery"} \subseteq DOMAIN add_calls[n].packet
       /\ Len(add_calls[n].devices) = 2
       /\ \A k \in 1..2 :
             \E e \in Elems(entities) :
                /\ e.device_id = add_calls[n].devices[k].device_id
                /\ e.value_key = add_calls[n].devices[k].value_key
                /\ e.entity_id # 0
                /\ e.state = IntV(21)

C20_NoConsumptionLost ==
    \A i \in Devs :
       (IsDerivative(i) /\ baseline[i].t = "int") =>
          /\ self_previous_reading(i) = latest[i]
          /\ reported[i] = latest[i].n - baseline[i].n

====
